---- MODULE Spec2Model ----
(***************************************************************************)
(* A model of the stateful and the array-splitting section components of   *)
(* the landing-page template: one component instance is created with its   *)
(* props, mounted (first render), and then driven by the events its        *)
(* handlers are registered for.  Every handler ends with the re-render     *)
(* React performs after a state update, so `view` is always the committed  *)
(* output of the component for its current props and local state.          *)
(***************************************************************************)
EXTENDS Integers, Sequences, FiniteSets, TLC

(* ------------------------------------------------------------------ *)
(* Bounds of the model                                                  *)
(* ------------------------------------------------------------------ *)
MaxFaqs == 3
MaxQueryLen == 2
MaxTestimonials == 3
MaxLinks == 3
MaxSideLinks == 1
MaxMenuItems == 2
MaxTiers == 2
MaxTableTiers == 2

(* ------------------------------------------------------------------ *)
(* JavaScript values                                                    *)
(* ------------------------------------------------------------------ *)
\* an optional prop is <<>> when the parent did not pass it and <<v>> when it passed v
Undefined == <<>>
Given(v) == <<v>>
ValueOf(opt) == opt[1]
\* what React commits for false / undefined / "" children: no element, no text
Nothing == [nothing |-> TRUE]
\* a render that threw (the component commits no output at all)
RenderError == [error |-> "ReferenceError"]

\* `text && <el/>`: undefined and the empty string are falsy
TruthyText(opt) == opt # Undefined /\ ValueOf(opt) # ""
\* `obj && <el/>`: undefined is falsy, every object and every array (even []) is truthy
TruthyObject(opt) == opt # Undefined

SeqsUpTo(S, n) == UNION {[1..k -> S] : k \in 0..n}

\* Math.ceil(a / b) for a >= 0, b > 0
MathCeilDiv(a, b) == IF a % b = 0 THEN a \div b ELSE (a \div b) + 1

\* Array.prototype.slice(start, end) with 0-based start (inclusive) and end (exclusive),
\* both already non-negative; indices beyond the length are clamped
ArraySlice(arr, start, end) ==
  LET s == IF start > Len(arr) THEN Len(arr) ELSE start
      e == IF end > Len(arr) THEN Len(arr) ELSE end
  IN  IF e <= s THEN <<>> ELSE SubSeq(arr, s + 1, e)

\* Array.prototype.slice(start): to the end of the array
ArraySliceFrom(arr, start) == ArraySlice(arr, start, Len(arr))

\* text is a sequence of characters
UpperToLower == [A |-> "a", P |-> "p", R |-> "r"]
ToLowerCaseChar(c) == IF c \in DOMAIN UpperToLower THEN UpperToLower[c] ELSE c
\* String.prototype.toLowerCase
ToLowerCase(s) == [i \in 1..Len(s) |-> ToLowerCaseChar(s[i])]

\* String.prototype.includes(sub): sub occurs in s at some offset
StringIncludes(s, sub) ==
  \E off \in 0..(Len(s) - Len(sub)) : SubSeq(s, off + 1, off + Len(sub)) = sub

(* ------------------------------------------------------------------ *)
(* Display data the parent page passes as props                         *)
(* ------------------------------------------------------------------ *)
OptText == {Undefined, Given("Given")}

LinkPool ==
  { [label |-> "Features", href |-> "#features"],
    [label |-> "Pricing",  href |-> "#pricing"],
    [label |-> "About",    href |-> "/about"] }

SideLinkPool ==
  { [label |-> "Work",    href |-> "/work"],
    [label |-> "Contact", href |-> "/contact"] }

OptCta == {Undefined, Given([text |-> "Get Started", href |-> "/signup"])}

FaqPool ==
  { [question |-> <<"P","a","y">>,     answer |-> <<"c","a","r","d">>],
    [question |-> <<"A","P","R">>,     answer |-> <<"r","a","p">>],
    [question |-> <<"y","a","r","d">>, answer |-> <<"P","a">>] }

QueryAlphabet == {"a", "A", "p"}

TestimonialPool ==
  { [name |-> "John Doe",  role |-> "CEO", company |-> "TechCorp", rating |-> 5, content |-> "Great"],
    [name |-> "Ann Lee",   role |-> "CTO", company |-> "Acme",     rating |-> 4, content |-> "Solid"],
    [name |-> "Raj Patel", role |-> "PM",  company |-> "Initech",  rating |-> 3, content |-> "Fine"] }

TierPool ==
  { [name |-> "Starter", monthlyPrice |-> "$9",  yearlyPrice |-> "$7",  period |-> "month"],
    [name |-> "Pro",     monthlyPrice |-> "$29", yearlyPrice |-> "$24", period |-> "month"],
    [name |-> "Team",    monthlyPrice |-> "$99", yearlyPrice |-> "$79", period |-> "month"] }

MenuItemPool ==
  { [label |-> "Products",  columns |-> << [title |-> "Categories",
                                            links |-> << [label |-> "Electronics", href |-> "/electronics"],
                                                         [label |-> "Clothing",    href |-> "/clothing"] >>],
                                           [title |-> "Featured",
                                            links |-> << [label |-> "New Arrivals", href |-> "/new"] >>] >>],
    [label |-> "Solutions", columns |-> << [title |-> "Featured",
                                            links |-> << [label |-> "Best Sellers", href |-> "/bestsellers"] >>] >>],
    [label |-> "Company",   columns |-> <<>>] }

SocialLinksPool ==
  { Undefined,
    Given([github |-> Undefined, twitter |-> Given("https://twitter.com/x"),
           linkedin |-> Undefined, youtube |-> Undefined]),
    Given([github |-> Given("https://github.com/x"), twitter |-> Undefined,
           linkedin |-> Undefined, youtube |-> Undefined]) }

(* ------------------------------------------------------------------ *)
(* The components and their prop types                                  *)
(* ------------------------------------------------------------------ *)
Components ==
  { "Navbar", "NavbarTransparent", "NavbarCentered", "NavbarMegaMenu",
    "FaqSectionSearchable", "FaqSectionTwoColumn", "TestimonialsSectionCarousel",
    "PricingSectionToggle", "HeroSection", "FooterNewsletter" }

\* the barrel module variants/index.ts, evaluated statement by statement
VariantsIndex == "variants/index"

OptSideLinks == {Undefined} \cup {Given(l) : l \in SeqsUpTo(SideLinkPool, MaxSideLinks)}

NavbarProps ==
  [brandName : {"Brand"}, links : SeqsUpTo(LinkPool, MaxLinks), ctaButton : OptCta]

NavbarBaseProps == NavbarProps

NavbarCenteredProps ==
  [brandName : {"Brand"}, links : SeqsUpTo(LinkPool, MaxLinks),
   leftLinks : OptSideLinks,
   rightLinks : OptSideLinks,
   ctaButton : OptCta]

NavbarMegaMenuProps ==
  [brandName : {"Brand"}, menuItems : SeqsUpTo(MenuItemPool, MaxMenuItems),
   simpleLinks : OptSideLinks,
   ctaButton : OptCta]

FaqBaseProps ==
  [badge : OptText, title : {"FAQ"}, description : OptText,
   faqs : SeqsUpTo(FaqPool, MaxFaqs)]

TestimonialsBaseProps ==
  [badge : OptText, title : {"Testimonials"}, description : OptText,
   testimonials : SeqsUpTo(TestimonialPool, MaxTestimonials)]

PricingSectionToggleProps ==
  [badge : OptText, title : {"Pricing"}, description : OptText,
   pricingTiers : SeqsUpTo(TierPool, MaxTiers), yearlyDiscount : OptText]

HeroSectionProps ==
  [badge : OptText, title : {"Title"}, description : {"Description"},
   primaryCta : {[text |-> "Start", href |-> "/start"]},
   secondaryCta : OptCta, image : OptText]

FooterNewsletterProps ==
  [companyName : {"MyBlog"}, description : OptText, newsletterTitle : OptText,
   newsletterDescription : OptText,
   columns : {<<>>, << [title |-> "Content", links |-> << [label |-> "Blog", href |-> "/blog"] >>] >>},
   socialLinks : SocialLinksPool]

PropsOf(c) ==
  CASE c = "Navbar"                      -> NavbarProps
    [] c = "NavbarTransparent"           -> NavbarBaseProps
    [] c = "NavbarCentered"              -> NavbarCenteredProps
    [] c = "NavbarMegaMenu"              -> NavbarMegaMenuProps
    [] c = "FaqSectionSearchable"        -> FaqBaseProps
    [] c = "FaqSectionTwoColumn"         -> FaqBaseProps
    [] c = "TestimonialsSectionCarousel" -> TestimonialsBaseProps
    [] c = "PricingSectionToggle"        -> PricingSectionToggleProps
    [] c = "HeroSection"                 -> HeroSectionProps
    [] c = "FooterNewsletter"            -> FooterNewsletterProps

(* ------------------------------------------------------------------ *)
(* Names bound in each component's file (its imports) and the names the *)
(* component's render evaluates unconditionally                         *)
(* ------------------------------------------------------------------ *)
FileBindings(c) ==
  CASE c = "Navbar" ->
         {"useState", "Button", "Sheet", "SheetContent", "SheetTrigger", "Menu"}
    [] c = "NavbarTransparent" ->
         {"useState", "useEffect", "Button", "Sheet", "SheetContent", "SheetTrigger", "Menu", "cn"}
    [] c = "NavbarCentered" ->
         {"useState", "Button", "Sheet", "SheetContent", "SheetTrigger", "Menu"}
    [] c = "NavbarMegaMenu" ->
         {"useState", "Button", "Sheet", "SheetContent", "SheetTrigger", "Menu"}
    [] c = "FaqSectionSearchable" ->
         {"useState", "motion", "Accordion", "AccordionContent", "AccordionItem",
          "AccordionTrigger", "Input", "fadeInUp", "viewportOptions", "Search"}
    [] c = "FaqSectionTwoColumn" ->
         {"motion", "Accordion", "AccordionContent", "AccordionItem", "AccordionTrigger",
          "fadeInUp", "viewportOptions"}
    [] c = "TestimonialsSectionCarousel" ->
         {"useState", "motion", "AnimatePresence", "Card", "CardContent", "Avatar",
          "AvatarFallback", "AvatarImage", "Button", "viewportOptions", "Star",
          "ChevronLeft", "ChevronRight", "Quote"}
    [] c = "PricingSectionToggle" ->
         {"useState", "motion", "Card", "CardContent", "CardHeader", "CardTitle", "Button",
          "Badge", "staggerContainer", "staggerItem", "viewportOptions", "Check", "cn"}
    [] c = "HeroSection" ->
         {"motion", "Button", "staggerContainer", "staggerItem", "transitions",
          "viewportOptions", "ArrowRight", "Play"}
    [] c = "FooterNewsletter" ->
         {"Button", "Input", "Github", "Twitter", "Linkedin", "Youtube"}

RenderReferences(c) ==
  CASE c = "Navbar" ->
         {"useState", "Sheet", "SheetTrigger", "SheetContent", "Button", "Menu"}
    [] c = "NavbarTransparent" ->
         {"useState", "useEffect", "cn", "Sheet", "SheetTrigger", "SheetContent", "Button", "Menu"}
    [] c = "NavbarCentered" ->
         {"useState", "Sheet", "SheetTrigger", "SheetContent", "Button", "Menu"}
    [] c = "NavbarMegaMenu" ->
         {"useState", "NavigationMenu", "NavigationMenuList", "Sheet", "SheetTrigger",
          "SheetContent", "Button", "Menu"}
    [] c = "FaqSectionSearchable" ->
         {"useState", "motion", "viewportOptions", "Search", "Input", "fadeInUp"}
    [] c = "FaqSectionTwoColumn" ->
         {"motion", "viewportOptions", "fadeInUp", "Accordion"}
    [] c = "TestimonialsSectionCarousel" ->
         {"useState", "motion", "viewportOptions", "AnimatePresence", "Card", "CardContent",
          "Quote", "Star", "Avatar", "AvatarImage", "AvatarFallback", "Button",
          "ChevronLeft", "ChevronRight"}
    [] c = "PricingSectionToggle" ->
         {"useState", "motion", "viewportOptions", "cn", "staggerContainer"}
    [] c = "HeroSection" ->
         {"motion", "staggerContainer", "viewportOptions", "staggerItem", "Button", "ArrowRight"}
    [] c = "FooterNewsletter" ->
         {"Input", "Button"}

\* evaluating an identifier that is bound nowhere in the file throws a ReferenceError
RendersWithoutReferenceError(c) == RenderReferences(c) \subseteq FileBindings(c)

(* ------------------------------------------------------------------ *)
(* Render helpers                                                       *)
(* ------------------------------------------------------------------ *)
\* a destructuring default `prop = d` applies exactly when the prop is undefined
DefaultTo(opt, d) == IF opt = Undefined THEN d ELSE ValueOf(opt)

Element(tag, content) == [tag |-> tag, content |-> content]

\* `{text && (<tag>{text}</tag>)}`
WhenTruthyText(opt, tag) == IF TruthyText(opt) THEN Element(tag, ValueOf(opt)) ELSE Nothing

\* `{obj && (<tag>...obj...</tag>)}`
WhenTruthyObject(opt, tag) == IF TruthyObject(opt) THEN Element(tag, ValueOf(opt)) ELSE Nothing

\* the section header shared by the FAQ, testimonial and pricing variants
BadgeSlot(props) == WhenTruthyText(props.badge, "span")
DescriptionSlot(props) == WhenTruthyText(props.description, "p")

\* {ctaButton && (<Button asChild><a href={ctaButton.href}>{ctaButton.text}</a></Button>)}
CtaSlot(props) == WhenTruthyObject(props.ctaButton, "Button")

(* ------------------------------------------------------------------ *)
(* Navbar                                                               *)
(* ------------------------------------------------------------------ *)
RenderNavbar(props, open) ==
  [ header       |-> "solid",
    desktopLinks |-> props.links,
    desktopCta   |-> CtaSlot(props),
    sheetOpen    |-> open,
    mobileLinks  |-> props.links,
    mobileCta    |-> CtaSlot(props) ]

(* ------------------------------------------------------------------ *)
(* NavbarTransparent                                                    *)
(* ------------------------------------------------------------------ *)
scrollThreshold == 50


\* cn(..., isScrolled ? "bg-background/95 ... border-b" : "bg-transparent")
HeaderBackground(scrolled) == IF scrolled THEN "solid" ELSE "transparent"

\* a header that also turns solid while the mobile menu is open
RenderNavbarTransparent_SolidWhenOpen(props, open, scrolled) ==
  [ header       |-> HeaderBackground(scrolled \/ open),
    desktopLinks |-> props.links,
    desktopCta   |-> CtaSlot(props),
    sheetOpen    |-> open,
    mobileLinks  |-> props.links,
    mobileCta    |-> CtaSlot(props) ]

\* <header className={cn(..., isScrolled ? ... : "bg-transparent")}> ... <Sheet open={isOpen}>
RenderNavbarTransparent(props, open, scrolled) ==
  [ header       |-> HeaderBackground(scrolled),
    desktopLinks |-> props.links,
    desktopCta   |-> CtaSlot(props),
    sheetOpen    |-> open,
    mobileLinks  |-> props.links,
    mobileCta    |-> CtaSlot(props) ]

(* ------------------------------------------------------------------ *)
(* NavbarCentered                                                       *)
(* ------------------------------------------------------------------ *)
\* a mid-point rounded down instead of up
SplitPoint_Floor(n) == n \div 2

\* Math.ceil(links.length / 2)
SplitPoint(n) == MathCeilDiv(n, 2)

\* leftLinks || links.slice(0, Math.ceil(links.length / 2)); an array, even [], is truthy
CenteredLeft(props) ==
  IF props.leftLinks # Undefined
    THEN ValueOf(props.leftLinks)
    ELSE ArraySlice(props.links, 0, SplitPoint(Len(props.links)))

\* rightLinks || links.slice(Math.ceil(links.length / 2))
CenteredRight(props) ==
  IF props.rightLinks # Undefined
    THEN ValueOf(props.rightLinks)
    ELSE ArraySliceFrom(props.links, SplitPoint(Len(props.links)))

RenderNavbarCentered(props, open) ==
  [ header       |-> "solid",
    desktopLeft  |-> CenteredLeft(props),
    desktopRight |-> CenteredRight(props),
    desktopCta   |-> CtaSlot(props),
    sheetOpen    |-> open,
    mobileLinks  |-> CenteredLeft(props) \o CenteredRight(props),
    mobileCta    |-> CtaSlot(props) ]

(* ------------------------------------------------------------------ *)
(* NavbarMegaMenu                                                       *)
(* ------------------------------------------------------------------ *)
RECURSIVE ConcatAll(_)
\* the children of nested .map calls, in document order
ConcatAll(seqs) == IF seqs = <<>> THEN <<>> ELSE Head(seqs) \o ConcatAll(Tail(seqs))

\* item.columns.map(column => column.links.map(link => <a/>))
MobileItemLinks(item) ==
  ConcatAll([c \in 1..Len(item.columns) |-> item.columns[c].links])

RenderNavbarMegaMenu(props, open) ==
  LET simpleLinks == DefaultTo(props.simpleLinks, <<>>)
  IN [ header        |-> "solid",
       desktopMenus  |-> [i \in 1..Len(props.menuItems) |->
                            [ trigger |-> props.menuItems[i].label,
                              columns |-> [c \in 1..Len(props.menuItems[i].columns) |->
                                             [ title |-> props.menuItems[i].columns[c].title,
                                               links |-> props.menuItems[i].columns[c].links ]] ]],
       desktopSimple |-> simpleLinks,
       desktopCta    |-> CtaSlot(props),
       sheetOpen     |-> open,
       mobileGroups  |-> [i \in 1..Len(props.menuItems) |->
                            [ label |-> props.menuItems[i].label,
                              links |-> MobileItemLinks(props.menuItems[i]) ]],
       mobileSimple  |-> simpleLinks,
       mobileCta     |-> CtaSlot(props) ]

(* ------------------------------------------------------------------ *)
(* FaqSectionSearchable                                                 *)
(* ------------------------------------------------------------------ *)
\* a filter that looks at the question only
FilteredFaqs_QuestionOnly(faqs, query) ==
  LET Test(faq) == StringIncludes(ToLowerCase(faq.question), ToLowerCase(query))
  IN  SelectSeq(faqs, Test)

\* faqs.filter(faq => faq.question.toLowerCase().includes(searchQuery.toLowerCase())
\*                 || faq.answer.toLowerCase().includes(searchQuery.toLowerCase()))
FilteredFaqs(faqs, query) ==
  LET Test(faq) ==
        \/ StringIncludes(ToLowerCase(faq.question), ToLowerCase(query))
        \/ StringIncludes(ToLowerCase(faq.answer), ToLowerCase(query))
  IN  SelectSeq(faqs, Test)

\* an off-by-one in the emptiness test
FaqBody_OffByOne(filteredFaqs, query) ==
  IF Len(filteredFaqs) > 1
    THEN [kind |-> "accordion", items |-> filteredFaqs]
    ELSE [kind |-> "noResults", items |-> <<>>, message |-> <<"No results found for", query>>]

\* filteredFaqs.length > 0 ? <Accordion>{filteredFaqs.map(...)}</Accordion> : <div>No results ...</div>
FaqBody(filteredFaqs, query) ==
  IF Len(filteredFaqs) > 0
    THEN [kind |-> "accordion", items |-> filteredFaqs]
    ELSE [kind |-> "noResults", items |-> <<>>, message |-> <<"No results found for", query>>]

RenderFaqSectionSearchable(props, query) ==
  [ badge       |-> BadgeSlot(props),
    description |-> DescriptionSlot(props),
    searchValue |-> query,
    body        |-> FaqBody(FilteredFaqs(props.faqs, query), query) ]

(* ------------------------------------------------------------------ *)
(* FaqSectionTwoColumn                                                  *)
(* ------------------------------------------------------------------ *)
\* a mid-point rounded down instead of up
Midpoint_Floor(faqs) == Len(faqs) \div 2

\* Math.ceil(faqs.length / 2)
Midpoint(faqs) == MathCeilDiv(Len(faqs), 2)

RenderFaqSectionTwoColumn(props) ==
  [ badge       |-> BadgeSlot(props),
    description |-> DescriptionSlot(props),
    leftColumn  |-> ArraySlice(props.faqs, 0, Midpoint(props.faqs)),
    rightColumn |-> ArraySliceFrom(props.faqs, Midpoint(props.faqs)) ]

(* ------------------------------------------------------------------ *)
(* TestimonialsSectionCarousel                                          *)
(* ------------------------------------------------------------------ *)
\* an increment that does not wrap
NextIndex_NoWrap(prev, n) == prev + 1

\* setCurrentIndex(prev => (prev + 1) % testimonials.length)
NextIndex(prev, n) == (prev + 1) % n

\* a decrement taken with the sign-keeping remainder alone: (prev - 1) % n
PreviousIndex_SignedRemainder(prev, n) == IF prev - 1 < 0 THEN prev - 1 ELSE (prev - 1) % n

\* setCurrentIndex(prev => (prev - 1 + testimonials.length) % testimonials.length)
PreviousIndex(prev, n) == (prev - 1 + n) % n

\* testimonials[currentIndex]; reading .rating of undefined throws
RenderTestimonialsSectionCarousel(props, index) ==
  IF index \in 0..(Len(props.testimonials) - 1)
    THEN [ badge       |-> BadgeSlot(props),
           description |-> DescriptionSlot(props),
           shownIndex  |-> index,
           card        |-> props.testimonials[index + 1],
           dots        |-> Len(props.testimonials),
           arrowsDisabled |-> (Len(props.testimonials) <= 1) ]
    ELSE [error |-> "TypeError"]

(* ------------------------------------------------------------------ *)
(* PricingSectionToggle                                                 *)
(* ------------------------------------------------------------------ *)
\* a price cell that ignores the toggle
DisplayedPrice_AlwaysMonthly(tier, yearly) == tier.monthlyPrice

\* {isYearly ? tier.yearlyPrice : tier.monthlyPrice}
DisplayedPrice(tier, yearly) == IF yearly THEN tier.yearlyPrice ELSE tier.monthlyPrice

RenderPricingSectionToggle(props, yearly) ==
  LET yearlyDiscount == DefaultTo(props.yearlyDiscount, "Save 20%")
  IN [ badge          |-> BadgeSlot(props),
       description    |-> DescriptionSlot(props),
       toggleOn       |-> yearly,
       yearlyDiscount |-> IF yearly THEN Element("Badge", yearlyDiscount) ELSE Nothing,
       prices         |-> [i \in 1..Len(props.pricingTiers) |->
                             DisplayedPrice(props.pricingTiers[i], yearly)],
       billedAnnually |-> [i \in 1..Len(props.pricingTiers) |-> yearly] ]

(* ------------------------------------------------------------------ *)
(* HeroSection                                                          *)
(* ------------------------------------------------------------------ *)
\* a secondary button that falls back to a placeholder label
HeroSecondaryCta_Placeholder(props) ==
  Element("Button", DefaultTo(props.secondaryCta, [text |-> "Learn more", href |-> "#"]))

\* {secondaryCta && (<Button ...>{secondaryCta.text}</Button>)}
HeroSecondaryCta(props) == WhenTruthyObject(props.secondaryCta, "Button")

RenderHeroSection(props) ==
  LET badge == DefaultTo(props.badge, "New Release")
  IN [ badge        |-> Element("span", badge),
       secondaryCta |-> HeroSecondaryCta(props),
       image        |-> WhenTruthyText(props.image, "img") ]

(* ------------------------------------------------------------------ *)
(* FooterNewsletter                                                     *)
(* ------------------------------------------------------------------ *)
SocialIcons(socialLinks) ==
  [ github   |-> WhenTruthyText(socialLinks.github,   "a"),
    twitter  |-> WhenTruthyText(socialLinks.twitter,  "a"),
    linkedin |-> WhenTruthyText(socialLinks.linkedin, "a"),
    youtube  |-> WhenTruthyText(socialLinks.youtube,  "a") ]

RenderFooterNewsletter(props) ==
  LET newsletterTitle == DefaultTo(props.newsletterTitle, "Stay Updated")
      newsletterDescription ==
        DefaultTo(props.newsletterDescription,
                  "Subscribe to our newsletter for the latest updates")
  IN [ newsletterTitle       |-> Element("h3", newsletterTitle),
       newsletterDescription |-> Element("p", newsletterDescription),
       description           |-> DescriptionSlot(props),
       socialLinks           |-> IF TruthyObject(props.socialLinks)
                                   THEN Element("div", SocialIcons(ValueOf(props.socialLinks)))
                                   ELSE Nothing,
       columns               |-> props.columns ]

(* ------------------------------------------------------------------ *)
(* variants/index.ts: the re-export statements, in file order           *)
(* ------------------------------------------------------------------ *)
\* the barrel with one hero variant forgotten
IndexExports_OneMissing ==
  << "NavbarTransparent", "NavbarCentered", "NavbarMegaMenu",
     "HeroSectionSplit", "HeroSectionMinimal", "HeroSectionVideo",
     "FeaturesSectionList", "FeaturesSectionBento", "FeaturesSectionIconGrid",
     "StepsSectionTimeline", "StepsSectionHorizontal", "StepsSectionCards",
     "TestimonialsSectionCarousel", "TestimonialsSectionMasonry", "TestimonialsSectionQuoteWall",
     "PricingSectionToggle", "PricingSectionTable", "PricingSectionSimple",
     "FaqSectionTwoColumn", "FaqSectionCategorized", "FaqSectionSearchable",
     "CtaSectionFullWidth", "CtaSectionSplit", "CtaSectionMinimal",
     "FooterMinimal", "FooterNewsletter", "FooterMega" >>

IndexExports ==
  << "NavbarTransparent", "NavbarCentered", "NavbarMegaMenu",
     "HeroSectionSplit", "HeroSectionMinimal", "HeroSectionVideo", "HeroSectionFullScreen",
     "FeaturesSectionList", "FeaturesSectionBento", "FeaturesSectionIconGrid",
     "StepsSectionTimeline", "StepsSectionHorizontal", "StepsSectionCards",
     "TestimonialsSectionCarousel", "TestimonialsSectionMasonry", "TestimonialsSectionQuoteWall",
     "PricingSectionToggle", "PricingSectionTable", "PricingSectionSimple",
     "FaqSectionTwoColumn", "FaqSectionCategorized", "FaqSectionSearchable",
     "CtaSectionFullWidth", "CtaSectionSplit", "CtaSectionMinimal",
     "FooterMinimal", "FooterNewsletter", "FooterMega" >>

(* ------------------------------------------------------------------ *)
(* State                                                                *)
(* ------------------------------------------------------------------ *)
VARIABLES
  comp,          \* the component instance (or the barrel module) under consideration
  props,         \* the props its parent passes
  mounted,       \* the first render has been committed and the effects have run
  view,          \* the committed output
  searchQuery,   \* FaqSectionSearchable: useState("")
  currentIndex,  \* TestimonialsSectionCarousel: useState(0)
  isOpen,        \* the navbars: useState(false)
  isScrolled,    \* NavbarTransparent: useState(false)
  isYearly,      \* PricingSectionToggle: useState(false)
  scrollY,       \* window.scrollY
  scrollPending, \* a scroll event is queued for the registered listener
  clock,         \* seconds since the carousel last could have rotated, modulo the period
  exported,      \* the names the barrel module has exported so far
  pc,            \* the next export statement of the barrel module
  page,          \* a page stacking two stateful components: each instance's own state
  handledBy,     \* the instance of the page whose handler ran last (0: none yet)
  resolving,     \* the variant being rendered for name resolution: how far it got
  observed       \* the motion elements watched for entering the viewport: each one's state

vars == << comp, props, mounted, view, searchQuery, currentIndex, isOpen, isScrolled,
           isYearly, scrollY, scrollPending, clock, exported, pc, page, handledBy,
           resolving, observed >>

\* no variant is being resolved
NotResolving == [variant |-> "", rpc |-> 0, thrown |-> <<>>]

\* the state that belongs to other scenarios than the single component
aside == << page, handledBy, resolving, observed >>

\* "Auto-rotates every 5 seconds"
AutoRotateSeconds == 5

ScrollPositions == {0, 50, 51, 120}

Navbars == {"Navbar", "NavbarTransparent", "NavbarCentered", "NavbarMegaMenu"}

LocalState ==
  [ searchQuery |-> searchQuery, currentIndex |-> currentIndex, isOpen |-> isOpen,
    isScrolled |-> isScrolled, isYearly |-> isYearly ]

\* what the component function returns for its props and local state
Render(c, p, st) ==
  IF ~RendersWithoutReferenceError(c) THEN RenderError
  ELSE CASE c = "Navbar"                      -> RenderNavbar(p, st.isOpen)
         [] c = "NavbarTransparent"           -> RenderNavbarTransparent(p, st.isOpen, st.isScrolled)
         [] c = "NavbarCentered"              -> RenderNavbarCentered(p, st.isOpen)
         [] c = "NavbarMegaMenu"              -> RenderNavbarMegaMenu(p, st.isOpen)
         [] c = "FaqSectionSearchable"        -> RenderFaqSectionSearchable(p, st.searchQuery)
         [] c = "FaqSectionTwoColumn"         -> RenderFaqSectionTwoColumn(p)
         [] c = "TestimonialsSectionCarousel" -> RenderTestimonialsSectionCarousel(p, st.currentIndex)
         [] c = "PricingSectionToggle"        -> RenderPricingSectionToggle(p, st.isYearly)
         [] c = "HeroSection"                 -> RenderHeroSection(p)
         [] c = "FooterNewsletter"            -> RenderFooterNewsletter(p)

Threw(v) == "error" \in DOMAIN v

\* the component is on screen with its handlers attached
Interactive == mounted /\ ~Threw(view)

Init ==
  /\ comp \in Components \cup {VariantsIndex}
  /\ props \in (IF comp = VariantsIndex THEN {<<>>} ELSE PropsOf(comp))
  /\ mounted = FALSE
  /\ view = Nothing
  /\ searchQuery = <<>>
  /\ currentIndex = 0
  /\ isOpen = FALSE
  /\ isScrolled = FALSE
  /\ isYearly = FALSE
  /\ scrollY = 0
  /\ scrollPending = FALSE
  /\ clock = 0
  /\ exported = {}
  /\ pc = 1
  /\ page = <<>>
  /\ handledBy = 0
  /\ resolving = NotResolving
  /\ observed = <<>>

\* first render and commit; NavbarTransparent's effect registers the scroll listener
Mount ==
  /\ comp \in Components
  /\ ~mounted
  /\ mounted' = TRUE
  /\ view' = Render(comp, props, LocalState)
  /\ UNCHANGED << comp, props, searchQuery, currentIndex, isOpen, isScrolled, isYearly,
                  scrollY, scrollPending, clock, exported, pc >>
  /\ UNCHANGED aside

\* <Input onChange={(e) => setSearchQuery(e.target.value)} />
SetSearchQuery ==
  /\ comp = "FaqSectionSearchable"
  /\ Interactive
  /\ \E value \in SeqsUpTo(QueryAlphabet, MaxQueryLen) :
       /\ searchQuery' = value
       /\ view' = Render(comp, props, [LocalState EXCEPT !.searchQuery = value])
  /\ UNCHANGED << comp, props, mounted, currentIndex, isOpen, isScrolled, isYearly,
                  scrollY, scrollPending, clock, exported, pc >>
  /\ UNCHANGED aside

SetCurrentIndex(index) ==
  /\ currentIndex' = index
  /\ view' = Render(comp, props, [LocalState EXCEPT !.currentIndex = index])
  /\ UNCHANGED << comp, props, mounted, searchQuery, isOpen, isScrolled, isYearly,
                  scrollY, scrollPending, clock, exported, pc >>
  /\ UNCHANGED aside

\* the right arrow: onClick={next}, disabled={testimonials.length <= 1}
ClickNext ==
  /\ comp = "TestimonialsSectionCarousel"
  /\ Interactive
  /\ ~(Len(props.testimonials) <= 1)
  /\ SetCurrentIndex(NextIndex(currentIndex, Len(props.testimonials)))

\* the left arrow: onClick={previous}, disabled={testimonials.length <= 1}
ClickPrevious ==
  /\ comp = "TestimonialsSectionCarousel"
  /\ Interactive
  /\ ~(Len(props.testimonials) <= 1)
  /\ SetCurrentIndex(PreviousIndex(currentIndex, Len(props.testimonials)))

\* a dot: onClick={() => setCurrentIndex(index)}
ClickDot ==
  /\ comp = "TestimonialsSectionCarousel"
  /\ Interactive
  /\ \E index \in 0..(Len(props.testimonials) - 1) : SetCurrentIndex(index)

\* one second passes while the carousel is on screen; the component registers no
\* timer or effect, so nothing of the component changes
Tick ==
  /\ comp = "TestimonialsSectionCarousel"
  /\ Interactive
  /\ clock' = (clock + 1) % AutoRotateSeconds
  /\ UNCHANGED << comp, props, mounted, view, searchQuery, currentIndex, isOpen, isScrolled,
                  isYearly, scrollY, scrollPending, exported, pc >>
  /\ UNCHANGED aside

\* the user (or the browser) scrolls the window; an event is queued only for a
\* listener that is registered, i.e. after the mount effect has run
WindowScroll ==
  /\ comp = "NavbarTransparent"
  /\ \E y \in ScrollPositions :
       /\ y # scrollY
       /\ scrollY' = y
  /\ scrollPending' = mounted
  /\ UNCHANGED << comp, props, mounted, view, searchQuery, currentIndex, isOpen, isScrolled,
                  isYearly, clock, exported, pc >>
  /\ UNCHANGED aside

\* handleScroll: setIsScrolled(window.scrollY > scrollThreshold)
HandleScroll ==
  /\ comp = "NavbarTransparent"
  /\ mounted
  /\ scrollPending
  /\ scrollPending' = FALSE
  /\ isScrolled' = (scrollY > scrollThreshold)
  /\ view' = IF Threw(view) THEN view
             ELSE Render(comp, props, [LocalState EXCEPT !.isScrolled = (scrollY > scrollThreshold)])
  /\ UNCHANGED << comp, props, mounted, searchQuery, currentIndex, isOpen, isYearly,
                  scrollY, clock, exported, pc >>
  /\ UNCHANGED aside

\* <Sheet open={isOpen} onOpenChange={setIsOpen}>: the trigger, the overlay, Escape
SheetOpenChange ==
  /\ comp \in Navbars
  /\ Interactive
  /\ \E open \in BOOLEAN :
       /\ open # isOpen
       /\ isOpen' = open
       /\ view' = Render(comp, props, [LocalState EXCEPT !.isOpen = open])
  /\ UNCHANGED << comp, props, mounted, searchQuery, currentIndex, isScrolled, isYearly,
                  scrollY, scrollPending, clock, exported, pc >>
  /\ UNCHANGED aside

\* a link or the CTA inside the open sheet: onClick={() => setIsOpen(false)}
MobileLinkClick ==
  /\ comp \in Navbars
  /\ Interactive
  /\ isOpen
  /\ isOpen' = FALSE
  /\ view' = Render(comp, props, [LocalState EXCEPT !.isOpen = FALSE])
  /\ UNCHANGED << comp, props, mounted, searchQuery, currentIndex, isScrolled, isYearly,
                  scrollY, scrollPending, clock, exported, pc >>
  /\ UNCHANGED aside

\* setIsYearly(!isYearly)
ToggledValue(yearly) == ~yearly

\* <button onClick={() => setIsYearly(!isYearly)}>
ClickToggle ==
  /\ comp = "PricingSectionToggle"
  /\ Interactive
  /\ isYearly' = ToggledValue(isYearly)
  /\ view' = Render(comp, props, [LocalState EXCEPT !.isYearly = ToggledValue(isYearly)])
  /\ UNCHANGED << comp, props, mounted, searchQuery, currentIndex, isOpen, isScrolled,
                  scrollY, scrollPending, clock, exported, pc >>
  /\ UNCHANGED aside

\* export { X } from "./x": the module's namespace gains the name X
EvaluateExport ==
  /\ comp = VariantsIndex
  /\ pc <= Len(IndexExports)
  /\ exported' = exported \cup {IndexExports[pc]}
  /\ pc' = pc + 1
  /\ UNCHANGED << comp, props, mounted, view, searchQuery, currentIndex, isOpen, isScrolled,
                  isYearly, scrollY, scrollPending, clock >>
  /\ UNCHANGED aside

Next ==
  \/ Mount
  \/ SetSearchQuery
  \/ ClickNext
  \/ ClickPrevious
  \/ ClickDot
  \/ Tick
  \/ WindowScroll
  \/ HandleScroll
  \/ SheetOpenChange
  \/ MobileLinkClick
  \/ ClickToggle
  \/ EvaluateExport

Spec == Init /\ [][Next]_vars

\* the behaviours in which the user never touches the carousel: it is mounted and
\* time passes (the clock never stops)
CarouselInit == Init /\ comp = "TestimonialsSectionCarousel"

IdleNext ==
  \/ Mount
  \/ Tick

IdleSpec == CarouselInit /\ [][IdleNext]_vars /\ WF_vars(Mount) /\ WF_vars(Tick)

(* ================================================================== *)
(* Properties                                                           *)
(* ================================================================== *)

\* two characters are the same letter when case is ignored
LetterPairs == {{"a", "A"}, {"p", "P"}, {"r", "R"}}
SameLetter(c, d) == c = d \/ \E pair \in LetterPairs : {c, d} \subseteq pair

\* query occurs in text as a contiguous run of letters, ignoring case
ContainsIgnoringCase(text, query) ==
  \E off \in 0..(Len(text) - Len(query)) :
    \A k \in 1..Len(query) : SameLetter(text[off + k], query[k])

MatchingPositions(faqs, query) ==
  { i \in 1..Len(faqs) : \/ ContainsIgnoringCase(faqs[i].question, query)
                         \/ ContainsIgnoringCase(faqs[i].answer, query) }

\* shown is faqs restricted to the positions in keep, in the original order
IsRestriction(shown, faqs, keep) ==
  /\ Len(shown) = Cardinality(keep)
  /\ \E f \in [1..Len(shown) -> keep] :
       /\ \A j, k \in 1..Len(shown) : j < k => f[j] < f[k]
       /\ \A k \in 1..Len(shown) : shown[k] = faqs[f[k]]

FaqSearchShown == comp = "FaqSectionSearchable" /\ Interactive

\* C1: the FAQs FaqSectionSearchable displays are exactly the FAQs whose question or
\* answer contains the search string ignoring case, each once, in their original order.
C1_DisplayedIsMatchingSubsequence ==
  FaqSearchShown =>
    IsRestriction(view.body.items, props.faqs, MatchingPositions(props.faqs, searchQuery))

\* a two-letter query that keeps some FAQs and drops others, one of the kept ones
\* matching only through its answer or only after case folding
C1_Witness ==
  /\ FaqSearchShown
  /\ Len(searchQuery) >= 2
  /\ Len(view.body.items) >= 1
  /\ Len(view.body.items) < Len(props.faqs)
  /\ \E i \in 1..Len(view.body.items) :
       ~StringIncludes(view.body.items[i].question, searchQuery)

\* C2: FaqSectionSearchable shows the "No results found" message exactly when the
\* filtered list is empty and the accordion of the matching FAQs exactly when it is
\* not, after any sequence of search-box edits and for the initial empty query.
C2_NoResultsIffEmpty ==
  FaqSearchShown =>
    LET filtered == FilteredFaqs(props.faqs, searchQuery)
    IN  /\ view.body.kind \in {"noResults", "accordion"}
        /\ (view.body.kind = "noResults") <=> (filtered = <<>>)
        /\ (view.body.kind = "accordion") <=> (filtered # <<>>)
        /\ view.body.kind = "accordion" => view.body.items = filtered

\* an edit that leaves no match although there are FAQs
C2_Witness ==
  /\ FaqSearchShown
  /\ props.faqs # <<>>
  /\ searchQuery # <<>>
  /\ view.body.kind = "noResults"

\* the carousel is on screen with n testimonials and displays the one at index i
CarouselShows(n, i) ==
  /\ comp = "TestimonialsSectionCarousel"
  /\ Interactive
  /\ Len(props.testimonials) = n
  /\ view.shownIndex = i

\* C3: with at least two testimonials and no user interaction the carousel eventually
\* advances from the testimonial at index i to the one at (i + 1) mod n.
C3_AutoRotates ==
  \A n \in 2..MaxTestimonials : \A i \in 0..(n - 1) :
    ( CarouselShows(n, i) ~> CarouselShows(n, (i + 1) % n) )

\* C4: while NavbarTransparent is mounted and no scroll event is still in flight, the
\* header is solid if and only if the window is scrolled beyond the threshold.
C4_SolidIffScrolled ==
  ( /\ comp = "NavbarTransparent"
    /\ Interactive
    /\ ~scrollPending )
  => ( (view.header = "solid") <=> (scrollY > 50) )

\* the pre-mount scroll: the page is already scrolled beyond the threshold when the
\* component mounts, and no event is pending
C4_Witness ==
  /\ comp = "NavbarTransparent"
  /\ Interactive
  /\ ~scrollPending
  /\ scrollY > 50
  /\ ~isScrolled

\* the optional display props of each component's prop interface
OptionalDisplayProps(c) ==
  CASE c \in Navbars                     -> {"ctaButton"}
    [] c = "FaqSectionSearchable"        -> {"badge", "description"}
    [] c = "FaqSectionTwoColumn"         -> {"badge", "description"}
    [] c = "TestimonialsSectionCarousel" -> {"badge", "description"}
    [] c = "PricingSectionToggle"        -> {"badge", "description", "yearlyDiscount"}
    [] c = "HeroSection"                 -> {"badge", "secondaryCta", "image"}
    [] c = "FooterNewsletter"            -> {"description", "newsletterTitle",
                                             "newsletterDescription", "socialLinks"}

\* the places of the committed output that display prop p
SlotsOf(c, p, v) ==
  IF c \in Navbars THEN {v.desktopCta, v.mobileCta} ELSE {v[p]}

\* the optional display props whose parameter declares a default text
DeclaredDefaults ==
  { <<"HeroSection", "badge", "New Release">>,
    <<"FooterNewsletter", "newsletterTitle", "Stay Updated">>,
    <<"FooterNewsletter", "newsletterDescription",
      "Subscribe to our newsletter for the latest updates">>,
    <<"PricingSectionToggle", "yearlyDiscount", "Save 20%">> }

HasDefault(c, p) == \E d \in DeclaredDefaults : d[1] = c /\ d[2] = p
DefaultText(c, p) == (CHOOSE d \in DeclaredDefaults : d[1] = c /\ d[2] = p)[3]

OmittedProps == { p \in OptionalDisplayProps(comp) : props[p] = Undefined }

IsCeilHalfSplit(left, right, all) ==
  /\ left \o right = all
  /\ Len(left) - Len(right) \in {0, 1}
  /\ 2 * Len(left) \in {Len(all), Len(all) + 1}
  /\ \A i \in 1..Len(left) : left[i] = all[i]
  /\ \A i \in 1..Len(right) : right[i] = all[Len(left) + i]

CenteredSplitsLinks ==
  /\ comp = "NavbarCentered"
  /\ Interactive
  /\ props.leftLinks = Undefined
  /\ props.rightLinks = Undefined

\* C6: NavbarCentered given neither leftLinks nor rightLinks puts the first ceil(n/2)
\* links on the left and the rest on the right: left ++ right is links, in order, and
\* the left side is as long as the right side or one longer.
C6_CenteredSplit ==
  CenteredSplitsLinks => IsCeilHalfSplit(view.desktopLeft, view.desktopRight, props.links)

\* an odd number of links: the left side gets the extra one
C6_Witness ==
  /\ CenteredSplitsLinks
  /\ Len(props.links) = 3
  /\ Len(view.desktopLeft) = 2
  /\ Len(view.desktopRight) = 1

\* C7: FaqSectionTwoColumn puts the first ceil(n/2) FAQs in the left column and the
\* rest in the right one: left ++ right is faqs, nothing lost or duplicated, and the
\* left column is as long as the right one or one longer.
C7_TwoColumnSplit ==
  (comp = "FaqSectionTwoColumn" /\ Interactive) =>
    IsCeilHalfSplit(view.leftColumn, view.rightColumn, props.faqs)

\* an odd number of FAQs
C7_Witness ==
  /\ comp = "FaqSectionTwoColumn"
  /\ Interactive
  /\ Len(props.faqs) = 3
  /\ Len(view.leftColumn) = 2
  /\ Len(view.rightColumn) = 1

PricingShown == comp = "PricingSectionToggle" /\ Interactive

\* C8: PricingSectionToggle starts monthly, every click on the toggle flips between
\* monthly and yearly, and every tier always displays its yearlyPrice when the toggle
\* is yearly and its monthlyPrice otherwise.
C8_PricingToggle ==
  /\ (comp = "PricingSectionToggle" => ~isYearly)
  /\ [][ClickToggle => (isYearly' = ~isYearly)]_vars
  /\ [](PricingShown =>
          /\ view.toggleOn = isYearly
          /\ Len(view.prices) = Len(props.pricingTiers)
          /\ \A i \in 1..Len(props.pricingTiers) :
               view.prices[i] = IF isYearly THEN props.pricingTiers[i].yearlyPrice
                                            ELSE props.pricingTiers[i].monthlyPrice)

\* two tiers showing their yearly prices after a click
C8_Witness ==
  /\ PricingShown
  /\ isYearly
  /\ Len(props.pricingTiers) >= 2
  /\ view.prices[1] = props.pricingTiers[1].yearlyPrice

IndexEvaluated == comp = VariantsIndex /\ pc > Len(IndexExports)

RECURSIVE FlattenColumns(_)
FlattenColumns(columns) ==
  IF columns = <<>> THEN <<>> ELSE Head(columns).links \o FlattenColumns(Tail(columns))

RECURSIVE FlattenItems(_)
FlattenItems(items) ==
  IF items = <<>> THEN <<>> ELSE FlattenColumns(Head(items).columns) \o FlattenItems(Tail(items))

RECURSIVE FlattenGroups(_)
FlattenGroups(groups) ==
  IF groups = <<>> THEN <<>> ELSE Head(groups).links \o FlattenGroups(Tail(groups))

GivenNavLinks ==
  CASE comp = "NavbarCentered" ->
         (IF props.leftLinks = Undefined
            THEN SubSeq(props.links, 1, (Len(props.links) + 1) \div 2)
            ELSE props.leftLinks[1])
         \o (IF props.rightLinks = Undefined
               THEN SubSeq(props.links, (Len(props.links) + 1) \div 2 + 1, Len(props.links))
               ELSE props.rightLinks[1])
    [] comp = "NavbarMegaMenu" ->
         FlattenItems(props.menuItems)
         \o (IF props.simpleLinks = Undefined THEN <<>> ELSE props.simpleLinks[1])
    [] OTHER -> props.links

DesktopOffered ==
  IF Threw(view) THEN <<>>
  ELSE CASE comp = "NavbarCentered" -> view.desktopLeft \o view.desktopRight
         [] comp = "NavbarMegaMenu" -> FlattenItems(view.desktopMenus) \o view.desktopSimple
         [] OTHER -> view.desktopLinks

MobileOffered ==
  IF Threw(view) THEN <<>>
  ELSE CASE comp = "NavbarMegaMenu" -> FlattenGroups(view.mobileGroups) \o view.mobileSimple
         [] OTHER -> view.mobileLinks

CtaOn(side) == ~Threw(view) /\ view[side] # Nothing

\* C10: in each of the four navbars the mobile sheet offers the navigation links the
\* navbar was given, the same ones in the same order as the desktop navigation, and
\* has the CTA button exactly when the desktop navigation has it.
C10_MobileMatchesDesktop ==
  (comp \in Navbars /\ mounted) =>
    /\ MobileOffered = GivenNavLinks
    /\ DesktopOffered = GivenNavLinks
    /\ CtaOn("mobileCta") <=> CtaOn("desktopCta")
    /\ CtaOn("mobileCta") <=> (props.ctaButton # Undefined)

\* the same statement for the three navbars whose files bind every name they use
NavbarsThatRender_MobileMatchesDesktop ==
  (comp \in Navbars \ {"NavbarMegaMenu"} /\ mounted) =>
    /\ Interactive
    /\ MobileOffered = GivenNavLinks
    /\ DesktopOffered = GivenNavLinks
    /\ CtaOn("mobileCta") <=> CtaOn("desktopCta")
    /\ CtaOn("mobileCta") <=> (props.ctaButton # Undefined)

(* ================================================================== *)
(* A page stacking two stateful components                              *)
(* ================================================================== *)
StatefulComponents ==
  { "Navbar", "NavbarTransparent", "FaqSectionSearchable",
    "TestimonialsSectionCarousel", "PricingSectionToggle" }

\* the useState initial values
InitialLocalState ==
  [ searchQuery |-> <<>>, currentIndex |-> 0, isOpen |-> FALSE,
    isScrolled |-> FALSE, isYearly |-> FALSE ]

\* an instance on the page: its component, the length of its testimonials prop
\* (carousel only) and its local state
PageInstances ==
  { [comp |-> c, n |-> n, st |-> InitialLocalState] :
      c \in StatefulComponents \ {"TestimonialsSectionCarousel"}, n \in {0} }
  \cup
  { [comp |-> "TestimonialsSectionCarousel", n |-> n, st |-> InitialLocalState] :
      n \in 2..MaxTestimonials }

\* a state kept in one module-level variable that every instance writes
HookCell_ModuleLevel(i) == 1

\* useState: React keeps the state of the i-th instance in that instance's own cell
HookCell(i) == i

PageInit ==
  /\ comp = "page"
  /\ props = <<>>
  /\ mounted = TRUE
  /\ view = Nothing
  /\ searchQuery = <<>>
  /\ currentIndex = 0
  /\ isOpen = FALSE
  /\ isScrolled = FALSE
  /\ isYearly = FALSE
  /\ scrollY = 0
  /\ scrollPending = FALSE
  /\ clock = 0
  /\ exported = {}
  /\ pc = 1
  /\ page \in [1..2 -> PageInstances]
  /\ handledBy = 0
  /\ resolving = NotResolving
  /\ observed = <<>>

single == << comp, props, mounted, view, searchQuery, currentIndex, isOpen, isScrolled,
             isYearly, scrollPending, clock, exported, pc, resolving >>

\* instance i's handler calls its state setter with the next local state
SetLocalState(i, next) ==
  /\ page' = [page EXCEPT ![HookCell(i)].st = next]
  /\ handledBy' = i
  /\ UNCHANGED << single, scrollY, observed >>

PageSheetOpenChange ==
  \E i \in DOMAIN page : \E open \in BOOLEAN :
    /\ page[i].comp \in Navbars
    /\ open # page[HookCell(i)].st.isOpen
    /\ SetLocalState(i, [page[HookCell(i)].st EXCEPT !.isOpen = open])

PageMobileLinkClick ==
  \E i \in DOMAIN page :
    /\ page[i].comp \in Navbars
    /\ page[HookCell(i)].st.isOpen
    /\ SetLocalState(i, [page[HookCell(i)].st EXCEPT !.isOpen = FALSE])

\* the window is scrolled; every registered listener will be called
PageWindowScroll ==
  /\ comp = "page"
  /\ \E y \in ScrollPositions : y # scrollY /\ scrollY' = y
  /\ UNCHANGED << single, page, handledBy, observed >>

\* instance i's listener: setIsScrolled(window.scrollY > scrollThreshold)
PageHandleScroll ==
  \E i \in DOMAIN page :
    /\ page[i].comp = "NavbarTransparent"
    /\ SetLocalState(i, [page[HookCell(i)].st EXCEPT !.isScrolled = (scrollY > scrollThreshold)])

PageSetSearchQuery ==
  \E i \in DOMAIN page : \E value \in SeqsUpTo(QueryAlphabet, MaxQueryLen) :
    /\ page[i].comp = "FaqSectionSearchable"
    /\ SetLocalState(i, [page[HookCell(i)].st EXCEPT !.searchQuery = value])

PageClickNext ==
  \E i \in DOMAIN page :
    /\ page[i].comp = "TestimonialsSectionCarousel"
    /\ SetLocalState(i, [page[HookCell(i)].st EXCEPT
                           !.currentIndex = NextIndex(@, page[i].n)])

PageClickPrevious ==
  \E i \in DOMAIN page :
    /\ page[i].comp = "TestimonialsSectionCarousel"
    /\ SetLocalState(i, [page[HookCell(i)].st EXCEPT
                           !.currentIndex = PreviousIndex(@, page[i].n)])

PageClickDot ==
  \E i \in DOMAIN page : \E index \in 0..(page[i].n - 1) :
    /\ page[i].comp = "TestimonialsSectionCarousel"
    /\ SetLocalState(i, [page[HookCell(i)].st EXCEPT !.currentIndex = index])

PageClickToggle ==
  \E i \in DOMAIN page :
    /\ page[i].comp = "PricingSectionToggle"
    /\ SetLocalState(i, [page[HookCell(i)].st EXCEPT !.isYearly = ToggledValue(@)])

PageNext ==
  \/ PageSheetOpenChange
  \/ PageMobileLinkClick
  \/ PageWindowScroll
  \/ PageHandleScroll
  \/ PageSetSearchQuery
  \/ PageClickNext
  \/ PageClickPrevious
  \/ PageClickDot
  \/ PageClickToggle

PageSpec == PageInit /\ [][PageNext]_vars

\* C11: an event handled by one component instance of a page changes only that
\* instance's own local state: every other instance, including another instance of
\* the same component, keeps its state.
C11_InstancesIndependent ==
  [][\A j \in DOMAIN page : (j # handledBy') => (page'[j] = page[j])]_vars

\* two carousels on one page, each navigated to a different testimonial
C11_Witness ==
  /\ comp = "page"
  /\ page[1].comp = "TestimonialsSectionCarousel"
  /\ page[2].comp = "TestimonialsSectionCarousel"
  /\ handledBy = 2
  /\ page[1].st.currentIndex = 1
  /\ page[2].st.currentIndex = 2

(* ================================================================== *)
(* Rendering each exported variant: name resolution                     *)
(* ================================================================== *)
\* the names each variant's file binds: its import statements
VariantBindings(v) ==
  CASE v = "NavbarTransparent" ->
         {"useState", "useEffect", "Button", "Sheet", "SheetContent",
          "SheetTrigger", "Menu", "cn"}
    [] v = "NavbarCentered" ->
         {"useState", "Button", "Sheet", "SheetContent", "SheetTrigger", "Menu"}
    [] v = "NavbarMegaMenu" ->
         {"useState", "Button", "Sheet", "SheetContent", "SheetTrigger", "Menu"}
    [] v = "HeroSectionSplit" ->
         {"motion", "Button", "fadeInLeft", "fadeInRight", "viewportOptions",
          "ArrowRight", "Play"}
    [] v = "HeroSectionMinimal" ->
         {"motion", "Button", "staggerContainer", "staggerItem",
          "viewportOptions"}
    [] v = "HeroSectionVideo" ->
         {"motion", "Button", "staggerContainer", "staggerItem",
          "viewportOptions", "ArrowRight", "Play"}
    [] v = "HeroSectionFullScreen" ->
         {"motion", "Button", "staggerContainer", "staggerItem",
          "viewportOptions", "ArrowRight", "Play"}
    [] v = "FeaturesSectionList" ->
         {"motion", "staggerContainer", "staggerItem", "viewportOptions"}
    [] v = "FeaturesSectionBento" ->
         {"motion", "Card", "CardContent", "staggerContainer", "staggerItem",
          "viewportOptions"}
    [] v = "FeaturesSectionIconGrid" ->
         {"motion", "staggerContainer", "staggerItem", "viewportOptions"}
    [] v = "StepsSectionTimeline" ->
         {"motion", "staggerContainer", "staggerItem", "viewportOptions"}
    [] v = "StepsSectionHorizontal" ->
         {"motion", "staggerContainer", "staggerItem", "viewportOptions"}
    [] v = "StepsSectionCards" ->
         {"motion", "Card", "CardContent", "staggerContainer", "staggerItem",
          "viewportOptions"}
    [] v = "TestimonialsSectionCarousel" ->
         {"useState", "motion", "AnimatePresence", "Card", "CardContent",
          "Avatar", "AvatarFallback", "AvatarImage", "Button",
          "viewportOptions", "Star", "ChevronLeft", "ChevronRight", "Quote"}
    [] v = "TestimonialsSectionMasonry" ->
         {"motion", "Card", "CardContent", "Avatar", "AvatarFallback",
          "AvatarImage", "staggerContainer", "staggerItem", "viewportOptions",
          "Star"}
    [] v = "TestimonialsSectionQuoteWall" ->
         {"motion", "Avatar", "AvatarFallback", "AvatarImage",
          "staggerContainer", "staggerItem", "viewportOptions", "Quote"}
    [] v = "PricingSectionToggle" ->
         {"useState", "motion", "Card", "CardContent", "CardHeader",
          "CardTitle", "Button", "Badge", "staggerContainer", "staggerItem",
          "viewportOptions", "Check", "cn"}
    [] v = "PricingSectionTable" ->
         {"motion", "Button", "Badge", "viewportOptions", "Check", "X"}
    [] v = "PricingSectionSimple" ->
         {"motion", "Card", "CardContent", "Button", "Badge",
          "staggerContainer", "staggerItem", "viewportOptions", "Check"}
    [] v = "FaqSectionTwoColumn" ->
         {"motion", "Accordion", "AccordionContent", "AccordionItem",
          "AccordionTrigger", "fadeInUp", "viewportOptions"}
    [] v = "FaqSectionCategorized" ->
         {"motion", "Accordion", "AccordionContent", "AccordionItem",
          "AccordionTrigger", "Tabs", "TabsContent", "TabsList", "TabsTrigger",
          "fadeInUp", "viewportOptions"}
    [] v = "FaqSectionSearchable" ->
         {"useState", "motion", "Accordion", "AccordionContent",
          "AccordionItem", "AccordionTrigger", "Input", "fadeInUp",
          "viewportOptions", "Search"}
    [] v = "CtaSectionFullWidth" ->
         {"motion", "Button", "staggerContainer", "staggerItem",
          "viewportOptions", "ArrowRight", "Sparkles"}
    [] v = "CtaSectionSplit" ->
         {"motion", "Button", "staggerContainer", "staggerItem",
          "viewportOptions", "ArrowRight"}
    [] v = "CtaSectionMinimal" ->
         {"motion", "staggerContainer", "staggerItem", "viewportOptions",
          "ArrowRight"}
    [] v = "FooterMinimal" ->
         {"Button", "Github", "Twitter", "Linkedin", "Youtube"}
    [] v = "FooterNewsletter" ->
         {"Button", "Input", "Github", "Twitter", "Linkedin", "Youtube"}
    [] v = "FooterMega" ->
         {"Button", "Separator", "Github", "Twitter", "Linkedin", "Youtube"}

\* the imported-kind names (hooks, animation presets, UI components, icons) the variant's
\* function evaluates, in source order, when every optional prop is given; names the
\* file declares itself are left out
VariantReferences(v) ==
  CASE v = "NavbarTransparent" ->
         <<"useState", "useEffect", "cn", "Button", "Sheet", "SheetTrigger",
           "Menu", "SheetContent">>
    [] v = "NavbarCentered" ->
         <<"useState", "Button", "Sheet", "SheetTrigger", "Menu", "SheetContent">>
    [] v = "NavbarMegaMenu" ->
         <<"useState", "NavigationMenu", "NavigationMenuList",
           "NavigationMenuItem", "NavigationMenuTrigger",
           "NavigationMenuContent", "NavigationMenuLink", "Button", "Sheet",
           "SheetTrigger", "Menu", "SheetContent">>
    [] v = "HeroSectionSplit" ->
         <<"motion", "fadeInLeft", "viewportOptions", "transitions", "Button",
           "ArrowRight", "Play", "fadeInRight">>
    [] v = "HeroSectionMinimal" ->
         <<"motion", "staggerContainer", "viewportOptions", "staggerItem",
           "Button">>
    [] v = "HeroSectionVideo" ->
         <<"motion", "staggerContainer", "viewportOptions", "staggerItem",
           "Button", "ArrowRight", "Play">>
    [] v = "HeroSectionFullScreen" ->
         <<"motion", "staggerContainer", "viewportOptions", "staggerItem",
           "Button", "ArrowRight", "Play">>
    [] v = "FeaturesSectionList" ->
         <<"motion", "viewportOptions", "staggerContainer", "staggerItem">>
    [] v = "FeaturesSectionBento" ->
         <<"motion", "viewportOptions", "staggerContainer", "staggerItem",
           "Card", "CardContent">>
    [] v = "FeaturesSectionIconGrid" ->
         <<"motion", "viewportOptions", "staggerContainer", "staggerItem">>
    [] v = "StepsSectionTimeline" ->
         <<"motion", "viewportOptions", "staggerContainer", "staggerItem">>
    [] v = "StepsSectionHorizontal" ->
         <<"motion", "viewportOptions", "staggerContainer", "staggerItem">>
    [] v = "StepsSectionCards" ->
         <<"motion", "viewportOptions", "staggerContainer", "staggerItem",
           "Card", "CardContent">>
    [] v = "TestimonialsSectionCarousel" ->
         <<"useState", "motion", "viewportOptions", "AnimatePresence", "Card",
           "CardContent", "Quote", "Star", "Avatar", "AvatarImage",
           "AvatarFallback", "Button", "ChevronLeft", "ChevronRight">>
    [] v = "TestimonialsSectionMasonry" ->
         <<"motion", "viewportOptions", "staggerContainer", "staggerItem",
           "Card", "CardContent", "Star", "Avatar", "AvatarImage",
           "AvatarFallback">>
    [] v = "TestimonialsSectionQuoteWall" ->
         <<"motion", "viewportOptions", "staggerContainer", "staggerItem",
           "Quote", "Avatar", "AvatarImage", "AvatarFallback">>
    [] v = "PricingSectionToggle" ->
         <<"useState", "motion", "viewportOptions", "cn", "Badge",
           "staggerContainer", "staggerItem", "Card", "CardHeader", "CardTitle",
           "CardContent", "Check", "Button">>
    [] v = "PricingSectionTable" ->
         <<"motion", "viewportOptions", "Badge", "Button", "Check", "X">>
    [] v = "PricingSectionSimple" ->
         <<"motion", "viewportOptions", "staggerContainer", "staggerItem",
           "Card", "Badge", "CardContent", "Check", "Button">>
    [] v = "FaqSectionTwoColumn" ->
         <<"motion", "viewportOptions", "fadeInUp", "Accordion",
           "AccordionItem", "AccordionTrigger", "AccordionContent">>
    [] v = "FaqSectionCategorized" ->
         <<"motion", "viewportOptions", "fadeInUp", "Tabs", "TabsList",
           "TabsTrigger", "TabsContent", "Accordion", "AccordionItem",
           "AccordionTrigger", "AccordionContent">>
    [] v = "FaqSectionSearchable" ->
         <<"useState", "motion", "viewportOptions", "Search", "Input",
           "fadeInUp", "Accordion", "AccordionItem", "AccordionTrigger",
           "AccordionContent">>
    [] v = "CtaSectionFullWidth" ->
         <<"motion", "staggerContainer", "viewportOptions", "staggerItem",
           "Sparkles", "Button", "ArrowRight">>
    [] v = "CtaSectionSplit" ->
         <<"motion", "staggerContainer", "viewportOptions", "staggerItem",
           "Button", "ArrowRight">>
    [] v = "CtaSectionMinimal" ->
         <<"motion", "staggerContainer", "viewportOptions", "staggerItem",
           "ArrowRight">>
    [] v = "FooterMinimal" ->
         <<"Button", "Github", "Twitter", "Linkedin", "Youtube">>
    [] v = "FooterNewsletter" ->
         <<"Input", "Button", "Github", "Twitter", "Linkedin", "Youtube">>
    [] v = "FooterMega" ->
         <<"Mail", "Button", "Github", "Twitter", "Linkedin", "Youtube",
           "Separator">>

Variants == { IndexExports[i] : i \in DOMAIN IndexExports }

ResolveInit ==
  /\ comp = "variant"
  /\ props = <<>>
  /\ mounted = FALSE
  /\ view = Nothing
  /\ searchQuery = <<>>
  /\ currentIndex = 0
  /\ isOpen = FALSE
  /\ isScrolled = FALSE
  /\ isYearly = FALSE
  /\ scrollY = 0
  /\ scrollPending = FALSE
  /\ clock = 0
  /\ exported = {}
  /\ pc = 1
  /\ page = <<>>
  /\ handledBy = 0
  /\ resolving \in { [variant |-> v, rpc |-> 1, thrown |-> <<>>] : v \in Variants }
  /\ observed = <<>>

\* evaluating the next name of the component function: a name the file does not bind
\* throws ReferenceError and the render stops
EvaluateReference ==
  /\ comp = "variant"
  /\ resolving.thrown = <<>>
  /\ resolving.rpc <= Len(VariantReferences(resolving.variant))
  /\ LET name == VariantReferences(resolving.variant)[resolving.rpc]
     IN  resolving' =
           IF name \in VariantBindings(resolving.variant)
             THEN [resolving EXCEPT !.rpc = @ + 1]
             ELSE [resolving EXCEPT !.thrown = <<name>>]
  /\ UNCHANGED << comp, props, mounted, view, searchQuery, currentIndex, isOpen, isScrolled,
                  isYearly, scrollY, scrollPending, clock, exported, pc, page, handledBy,
                  observed >>

ResolveSpec == ResolveInit /\ [][EvaluateReference]_vars

\* C12: every identifier a variant component references when it renders is imported
\* or declared in the variant's own file, so rendering a variant never fails on an
\* unbound name.
C12_NoUnboundName == resolving.thrown = <<>>

\* the same for the variants other than the three whose files miss an import
C12_OtherVariantsResolve ==
  (resolving.variant \notin {"NavbarMegaMenu", "HeroSectionSplit", "FooterMega", ""}) =>
    /\ resolving.thrown = <<>>
    /\ \A k \in 1..Len(VariantReferences(resolving.variant)) :
         VariantReferences(resolving.variant)[k] \in VariantBindings(resolving.variant)

(* ================================================================== *)
(* Properties of the carousel                                           *)
(* ================================================================== *)
CarouselWith(n) ==
  /\ comp = "TestimonialsSectionCarousel"
  /\ Len(props.testimonials) = n

\* C13: for a testimonials array of length n >= 1, currentIndex starts at 0 and after
\* any sequence of next, previous and dot clicks is an integer in 0..n-1, and the
\* testimonial shown is testimonials[currentIndex], an element of the array.
C13_IndexInRange ==
  \A n \in 1..MaxTestimonials :
    CarouselWith(n) =>
      /\ ~mounted => currentIndex = 0
      /\ currentIndex \in 0..(n - 1)
      /\ mounted =>
           /\ ~Threw(view)
           /\ view.shownIndex = currentIndex
           /\ view.card = props.testimonials[currentIndex + 1]
           /\ \E k \in 1..n : view.card = props.testimonials[k]

\* the last testimonial of the longest array is on screen
C13_Witness ==
  /\ CarouselWith(MaxTestimonials)
  /\ Interactive
  /\ currentIndex = MaxTestimonials - 1
  /\ view.card = props.testimonials[MaxTestimonials]

\* k applications of next / of previous
RECURSIVE NextTimes(_, _, _)
NextTimes(k, i, n) == IF k = 0 THEN i ELSE NextTimes(k - 1, NextIndex(i, n), n)

\* C14: next maps index i to (i + 1) mod n and previous maps i to (i - 1 + n) mod n:
\* next from the last testimonial wraps to the first, previous from the first wraps to
\* the last, next then previous and previous then next return to the same index, and
\* n consecutive next clicks return to the starting index.
C14_NavigationCycles ==
  /\ [][ClickNext =>
          currentIndex' = (IF currentIndex = Len(props.testimonials) - 1
                             THEN 0 ELSE currentIndex + 1)]_vars
  /\ [][ClickPrevious =>
          currentIndex' = (IF currentIndex = 0
                             THEN Len(props.testimonials) - 1 ELSE currentIndex - 1)]_vars
  /\ [](\A n \in 1..MaxTestimonials :
          (CarouselWith(n) /\ Interactive) =>
            /\ NextIndex(n - 1, n) = 0
            /\ PreviousIndex(0, n) = n - 1
            /\ PreviousIndex(NextIndex(currentIndex, n), n) = currentIndex
            /\ NextIndex(PreviousIndex(currentIndex, n), n) = currentIndex
            /\ NextTimes(n, currentIndex, n) = currentIndex)

\* a carousel standing on its last testimonial, from which next wraps
C14_Witness ==
  /\ CarouselWith(MaxTestimonials)
  /\ Interactive
  /\ currentIndex = MaxTestimonials - 1
  /\ view.arrowsDisabled = FALSE

\* C15: the carousel renders without a runtime error for every testimonials array of
\* its prop type, the empty array included: the testimonial it reads is defined and
\* currentIndex stays a valid index.
C15_RendersWithoutError ==
  (comp = "TestimonialsSectionCarousel" /\ mounted) =>
    /\ ~Threw(view)
    /\ currentIndex \in 0..(Len(props.testimonials) - 1)

\* the same for the non-empty arrays
C15_NonEmptyRenders ==
  (comp = "TestimonialsSectionCarousel" /\ mounted /\ props.testimonials # <<>>) =>
    /\ ~Threw(view)
    /\ currentIndex \in 0..(Len(props.testimonials) - 1)

(* ================================================================== *)
(* The carousel re-rendered by its parent with other props              *)
(* ================================================================== *)
\* the parent renders the carousel again with another testimonials array; the
\* component function runs with the new props and the state useState kept
ReceiveProps ==
  /\ comp = "TestimonialsSectionCarousel"
  /\ Interactive
  /\ \E testimonials \in SeqsUpTo(TestimonialPool, MaxTestimonials) :
       /\ testimonials # props.testimonials
       /\ props' = [props EXCEPT !.testimonials = testimonials]
       /\ view' = Render(comp, [props EXCEPT !.testimonials = testimonials], LocalState)
  /\ UNCHANGED << comp, mounted, searchQuery, currentIndex, isOpen, isScrolled, isYearly,
                  scrollY, scrollPending, clock, exported, pc >>
  /\ UNCHANGED aside

RerenderNext ==
  \/ Mount
  \/ ClickNext
  \/ ClickPrevious
  \/ ClickDot
  \/ ReceiveProps

RerenderSpec == CarouselInit /\ [][RerenderNext]_vars

\* C16: when the parent re-renders the carousel with a shorter (non-empty)
\* testimonials array after the user has navigated, testimonials[currentIndex] is
\* still a defined element of the new array.
C16_ValidSelectionAcrossProps ==
  (comp = "TestimonialsSectionCarousel" /\ mounted /\ props.testimonials # <<>>) =>
    /\ currentIndex \in 0..(Len(props.testimonials) - 1)
    /\ ~Threw(view)

(* ================================================================== *)
(* Properties of NavbarTransparent's two flags                          *)
(* ================================================================== *)
TransparentShown == comp = "NavbarTransparent" /\ Interactive

\* C17: in NavbarTransparent a scroll event changes only isScrolled and leaves the
\* mobile-menu flag isOpen (and the sheet) as it was; opening or closing the mobile
\* menu, or clicking a link in it, changes only isOpen and leaves isScrolled (and the
\* header background) as it was.
C17_FlagsIndependent ==
  /\ [][(TransparentShown /\ (WindowScroll \/ HandleScroll)) =>
          /\ isOpen' = isOpen
          /\ view'.sheetOpen = view.sheetOpen]_vars
  /\ [][(TransparentShown /\ (SheetOpenChange \/ MobileLinkClick)) =>
          /\ isScrolled' = isScrolled
          /\ view'.header = view.header
          /\ isOpen' # isOpen
          /\ view'.sheetOpen = isOpen']_vars

\* the menu is open over a header that a scroll event has turned solid
C17_Witness ==
  /\ TransparentShown
  /\ isOpen
  /\ isScrolled
  /\ view.sheetOpen
  /\ view.header = "solid"

(* ================================================================== *)
(* PricingSectionTable                                                  *)
(* ================================================================== *)
TierNamePool == {"Basic", "Pro"}

\* string[] props whose content does not matter to the layout: one array per length
PriceArrays == { [i \in 1..k |-> "$9"] : k \in 0..MaxTableTiers }
PeriodArrays == { [i \in 1..k |-> "month"] : k \in 0..MaxTableTiers }
DescriptionArrays == { [i \in 1..k |-> "For teams"] : k \in 0..MaxTableTiers }
CtaArrays == { [i \in 1..k |-> [text |-> "Choose", href |-> "/buy"]] : k \in 0..MaxTableTiers }

\* PricingFeature[]: tiers holds booleans and strings
FeatureArrays ==
  { <<>>,
    << [name |-> "SSO", tiers |-> << [boolean |-> TRUE], [string |-> "10 GB"] >>] >> }

PricingSectionTableProps ==
  [ badge : OptText, title : {"Compare plans"}, description : {Undefined},
    tierNames : SeqsUpTo(TierNamePool, MaxTableTiers),
    prices : PriceArrays, periods : PeriodArrays, descriptions : DescriptionArrays,
    features : FeatureArrays, ctas : CtaArrays,
    popularTier : {Undefined, Given(0)} ]

\* arr[index] with a zero-based index: undefined past the end
ArrayAt(arr, index) == IF index + 1 \in DOMAIN arr THEN Given(arr[index + 1]) ELSE Undefined

\* {value} in JSX: undefined renders no text
TextOf(opt) == IF opt = Undefined THEN "" ELSE ValueOf(opt)

\* ctas[index].href, ctas[index].text: a property read of undefined throws
HeaderThrows(p, index) == ArrayAt(p.ctas, index) = Undefined

\* the <th> of tierNames[index]
HeaderCell(p, index) ==
  [ name        |-> p.tierNames[index + 1],
    popular     |-> (p.popularTier = Given(index)),
    price       |-> TextOf(ArrayAt(p.prices, index)),
    period      |-> TextOf(ArrayAt(p.periods, index)),
    description |-> TextOf(ArrayAt(p.descriptions, index)),
    cta         |-> ValueOf(ArrayAt(p.ctas, index)) ]

\* typeof value === "boolean" ? (value ? <Check/> : <X/>) : <span>{value}</span>
FeatureCell(value) ==
  IF "boolean" \in DOMAIN value
    THEN (IF value.boolean THEN "Check" ELSE "X")
    ELSE value.string

RenderPricingSectionTable(p) ==
  IF \E index \in 0..(Len(p.tierNames) - 1) : HeaderThrows(p, index)
    THEN [error |-> "TypeError"]
    ELSE [ badge       |-> BadgeSlot(p),
           description |-> DescriptionSlot(p),
           headers     |-> [k \in 1..Len(p.tierNames) |-> HeaderCell(props, k - 1)],
           rows        |-> [r \in 1..Len(p.features) |->
                             [ name  |-> p.features[r].name,
                               cells |-> [t \in 1..Len(p.features[r].tiers) |->
                                           FeatureCell(p.features[r].tiers[t])] ]] ]

TableInit ==
  /\ comp = "PricingSectionTable"
  /\ props \in PricingSectionTableProps
  /\ mounted = FALSE
  /\ view = Nothing
  /\ searchQuery = <<>>
  /\ currentIndex = 0
  /\ isOpen = FALSE
  /\ isScrolled = FALSE
  /\ isYearly = FALSE
  /\ scrollY = 0
  /\ scrollPending = FALSE
  /\ clock = 0
  /\ exported = {}
  /\ pc = 1
  /\ page = <<>>
  /\ handledBy = 0
  /\ resolving = NotResolving
  /\ observed = <<>>

\* first render of the table
MountTable ==
  /\ comp = "PricingSectionTable"
  /\ ~mounted
  /\ mounted' = TRUE
  /\ view' = RenderPricingSectionTable(props)
  /\ UNCHANGED << comp, props, searchQuery, currentIndex, isOpen, isScrolled, isYearly,
                  scrollY, scrollPending, clock, exported, pc >>
  /\ UNCHANGED aside

TableSpec == TableInit /\ [][MountTable]_vars

TableMounted == comp = "PricingSectionTable" /\ mounted

\* the table shows one header per tier name, each with its entries or empty content
TableShowsHeaders ==
  /\ ~Threw(view)
  /\ Len(view.headers) = Len(props.tierNames)
  /\ \A k \in 1..Len(props.tierNames) :
       /\ view.headers[k].name = props.tierNames[k]
       /\ view.headers[k].price = (IF k <= Len(props.prices) THEN props.prices[k] ELSE "")
       /\ view.headers[k].period = (IF k <= Len(props.periods) THEN props.periods[k] ELSE "")
       /\ view.headers[k].description =
            (IF k <= Len(props.descriptions) THEN props.descriptions[k] ELSE "")

\* C18: PricingSectionTable renders one header column per tierNames entry without a
\* runtime error for every input of its prop types, also when prices, periods,
\* descriptions or ctas has fewer entries than tierNames; a missing entry renders as
\* empty content.
C18_TableRendersEveryInput == TableMounted => TableShowsHeaders

\* the same when ctas has an entry for every tier name
C18_TableRendersWithAllCtas ==
  (TableMounted /\ Len(props.ctas) >= Len(props.tierNames)) => TableShowsHeaders

(* ================================================================== *)
(* Scroll-triggered animations: whileInView with viewportOptions        *)
(* ================================================================== *)
\* viewport options that let the animation follow every entry and exit
viewportOptions_Repeats == [once |-> FALSE, marginBottom |-> -100, amountPercent |-> 30]

\* export const viewportOptions = { once: true, margin: "0px 0px -100px 0px", amount: 0.3 }
viewportOptions == [once |-> TRUE, marginBottom |-> -100, amountPercent |-> 30]

\* the window and the motion elements of a page, top to bottom (pixels)
Window == [innerHeight |-> 700]
MotionElements ==
  << [top |-> 0, height |-> 300], [top |-> 500, height |-> 400], [top |-> 1200, height |-> 200] >>
ScrollTops == {0, 300, 600, 900, 1200}

Max2(a, b) == IF a >= b THEN a ELSE b
Min2(a, b) == IF a <= b THEN a ELSE b

\* the part of element el inside the observer's root: the window shrunk by the margin
VisibleHeight(el, top) ==
  Max2(0, Min2(el.top + el.height, top + Window.innerHeight + viewportOptions.marginBottom)
          - Max2(el.top, top))

\* the observer reports el as intersecting when at least `amount` of it is inside
IsIntersecting(el, top) ==
  100 * VisibleHeight(el, top) >= viewportOptions.amountPercent * el.height

\* initial="hidden" whileInView="visible" viewport={viewportOptions}; the observer
\* delivers a first entry for each element it starts to observe
ObservedAtMount ==
  [e \in DOMAIN MotionElements |->
    [ isInView |-> FALSE, hasEnteredView |-> FALSE, active |-> FALSE, replayed |-> FALSE,
      pending |-> Given(IsIntersecting(MotionElements[e], 0)) ]]

AnimInit ==
  /\ comp = "motion"
  /\ props = <<>>
  /\ mounted = TRUE
  /\ view = Nothing
  /\ searchQuery = <<>>
  /\ currentIndex = 0
  /\ isOpen = FALSE
  /\ isScrolled = FALSE
  /\ isYearly = FALSE
  /\ scrollY = 0
  /\ scrollPending = FALSE
  /\ clock = 0
  /\ exported = {}
  /\ pc = 1
  /\ page = <<>>
  /\ handledBy = 0
  /\ resolving = NotResolving
  /\ observed = ObservedAtMount

\* the user scrolls: the observer queues an entry for every element whose
\* intersection changed (a later change replaces an entry not yet delivered)
ViewportScroll ==
  /\ comp = "motion"
  /\ \E top \in ScrollTops :
       /\ top # scrollY
       /\ scrollY' = top
       /\ observed' =
            [e \in DOMAIN observed |->
              IF IsIntersecting(MotionElements[e], top) # IsIntersecting(MotionElements[e], scrollY)
                THEN [observed[e] EXCEPT !.pending = Given(IsIntersecting(MotionElements[e], top))]
                ELSE observed[e]]
  /\ UNCHANGED << single, page, handledBy >>

\* the viewport feature's callback for one entry:
\*   if (isInView === isIntersecting) return
\*   isInView = isIntersecting
\*   if (once && !isIntersecting && hasEnteredView) return
\*   else if (isIntersecting) hasEnteredView = true
\*   setActive("whileInView", isIntersecting)
OnIntersectionUpdate(el, isIntersecting) ==
  IF el.isInView = isIntersecting THEN el
  ELSE IF viewportOptions.once /\ ~isIntersecting /\ el.hasEnteredView
    THEN [el EXCEPT !.isInView = isIntersecting]
    ELSE [el EXCEPT !.isInView = isIntersecting,
                    !.hasEnteredView = @ \/ isIntersecting,
                    !.active = isIntersecting,
                    !.replayed = @ \/ (isIntersecting /\ ~el.active /\ el.hasEnteredView)]

DeliverEntry ==
  /\ comp = "motion"
  /\ \E e \in DOMAIN observed :
       /\ observed[e].pending # Undefined
       /\ observed' =
            [observed EXCEPT ![e] =
              [OnIntersectionUpdate(observed[e], ValueOf(observed[e].pending))
                 EXCEPT !.pending = Undefined]]
  /\ UNCHANGED << single, scrollY, page, handledBy >>

AnimNext ==
  \/ ViewportScroll
  \/ DeliverEntry

AnimSpec == AnimInit /\ [][AnimNext]_vars

\* C19: an animation that uses viewportOptions plays only once: after the element has
\* switched from hidden to visible on entering the viewport, no later leaving and
\* re-entering returns it to hidden or replays the animation.
C19_PlaysOnce ==
  /\ [][\A e \in DOMAIN observed :
          (e \in DOMAIN observed' /\ observed[e].active) => observed'[e].active]_vars
  /\ [](\A e \in DOMAIN observed : ~observed[e].replayed)

\* an element that became visible, left the viewport and came back into it
C19_Witness ==
  /\ comp = "motion"
  /\ observed[3].active
  /\ observed[3].hasEnteredView
  /\ observed[3].isInView
  /\ observed[1].active
  /\ ~observed[1].isInView
  /\ scrollY = 1200

====
